---- MODULE Spec2Model ----
(***************************************************************************)
(* Model of dcache.H: a configurable functional cache simulator.           *)
(*                                                                         *)
(*   - bit utilities IsPower2 / FloorLog2                                  *)
(*   - CACHE_TAG, CACHE_SET::DIRECT_MAPPED, CACHE_SET::LRU                 *)
(*   - CACHE_BASE (geometry, counters, SplitAddress, accessors)            *)
(*   - CACHE (constructor, Access, AccessSingleLine)                       *)
(*                                                                         *)
(* Three specifications are given.  Spec drives one CACHE object through  *)
(* its public interface; SpecSet drives one stand-alone CACHE_SET object   *)
(* through Find and Replace; SpecLRU drives one CACHE of LRU sets through  *)
(* longer runs of AccessSingleLine, a reference LRU list beside each set.  *)
(*                                                                         *)
(* UINT32 values that can wrap (the set index mask and what is derived     *)
(* from it) are kept exactly, as a pair <<hi, lo>> of 16-bit halves, since *)
(* TLC's integers stop at 2^31 - 1.  Every other quantity stays far below  *)
(* 2^16 within the bounds and is a plain number.                           *)
(***************************************************************************)
EXTENDS Integers, Sequences, FiniteSets, TLC

(***************************************************************************)
(* Bounds of the model.                                                    *)
(***************************************************************************)
\* constructor arguments are drawn from 1..Max*
MaxCacheSize == 4
MaxLineSize == 3
MaxAssoc == 2
\* addresses are drawn from 0..MaxAddr, sizes of Access from 0..MaxSize
MaxAddr == 2
MaxSize == 1
\* number of AccessSingleLine calls made on one cache
MaxCalls == 2
\* the stand-alone set: associativity from 1..MaxSetAssoc, tags from 0..MaxTag
MaxSetAssoc == 3
MaxTag == 4
\* number of AccessSingleLine calls made on one cache of SpecLRU
MaxRunCalls == 4

(***************************************************************************)
(* Template arguments of the instantiation that is modelled                *)
(* (CACHE<SET, MAX_SETS, STORE_ALLOCATION>, LRU<MAX_ASSOCIATIVITY>).       *)
(***************************************************************************)
MAX_SETS == 2
MAX_ASSOCIATIVITY == 4

ACCESS_TYPE_LOAD == "LOAD"
ACCESS_TYPE_STORE == "STORE"
ACCESS_TYPE == {ACCESS_TYPE_LOAD, ACCESS_TYPE_STORE}

STORE_ALLOCATE == "STORE_ALLOCATE"
STORE_NO_ALLOCATE == "STORE_NO_ALLOCATE"
STORE_ALLOCATION_T == {STORE_ALLOCATE, STORE_NO_ALLOCATE}

DIRECT_MAPPED == "DIRECT_MAPPED"
LRU == "LRU"
SET_T == {DIRECT_MAPPED, LRU}

(***************************************************************************)
(* Machine arithmetic.                                                     *)
(***************************************************************************)
RECURSIVE BitAnd(_, _)
\* a & b for naturals
BitAnd(a, b) ==
    IF a = 0 \/ b = 0 THEN 0
    ELSE (a % 2) * (b % 2) + 2 * BitAnd(a \div 2, b \div 2)

\* a UINT32 as <<hi, lo>>, value hi * 2^16 + lo
ToU32(n) == <<n \div (2^16), n % (2^16)>>

\* x - 1 in UINT32 (0 - 1 wraps to 0xFFFFFFFF)
U32Dec(x) ==
    IF x[2] > 0 THEN <<x[1], x[2] - 1>>
    ELSE IF x[1] > 0 THEN <<x[1] - 1, 2^16 - 1>>
    ELSE <<2^16 - 1, 2^16 - 1>>

\* x + 1 in UINT32 (0xFFFFFFFF + 1 wraps to 0)
U32Inc(x) ==
    IF x[2] < 2^16 - 1 THEN <<x[1], x[2] + 1>>
    ELSE IF x[1] < 2^16 - 1 THEN <<x[1] + 1, 0>>
    ELSE <<0, 0>>

\* x & y in UINT32
U32And(x, y) == <<BitAnd(x[1], y[1]), BitAnd(x[2], y[2])>>

\* unsigned comparison of a UINT32 with a small natural n < 2^16
U32Le(x, n) == x[1] = 0 /\ x[2] <= n
U32Lt(x, n) == x[1] = 0 /\ x[2] < n

\* unsigned x < y of two UINT32
U32Less(x, y) == x[1] < y[1] \/ (x[1] = y[1] /\ x[2] < y[2])

\* static inline bool IsPower2(UINT32 n) { return ((n & (n - 1)) == 0); }
IsPower2(n) == U32And(n, U32Dec(n)) = <<0, 0>>

\* static inline INT32 FloorLog2(UINT32 n), for n < 2^31
FloorLog2(n) ==
    IF n = 0 THEN -1
    ELSE LET p1 == IF n \div (2^16) # 0 THEN 16 ELSE 0
             n1 == IF n \div (2^16) # 0 THEN n \div (2^16) ELSE n
             p2 == IF BitAnd(n1, 65280) # 0 THEN p1 + 8 ELSE p1
             n2 == IF BitAnd(n1, 65280) # 0 THEN n1 \div (2^8) ELSE n1
             p3 == IF BitAnd(n2, 240) # 0 THEN p2 + 4 ELSE p2
             n3 == IF BitAnd(n2, 240) # 0 THEN n2 \div (2^4) ELSE n2
             p4 == IF BitAnd(n3, 12) # 0 THEN p3 + 2 ELSE p3
             n4 == IF BitAnd(n3, 12) # 0 THEN n3 \div (2^2) ELSE n3
             p5 == IF BitAnd(n4, 2) # 0 THEN p4 + 1 ELSE p4
         IN  p5

(***************************************************************************)
(* CACHE_TAG                                                               *)
(***************************************************************************)
\* CACHE_TAG(ADDRINT tag = 0) { _tag = tag; dirty = false; LRU = 0; }
CACHE_TAG(tag) == [tag |-> tag, dirty |-> FALSE, LRU |-> 0]

\* bool operator==(const CACHE_TAG &right) const
TagEq(left, right) == left.tag = right.tag

(***************************************************************************)
(* CACHE_SET.  One record shape serves both set classes: tags is the slot  *)
(* array (DIRECT_MAPPED uses slot 0 only, its single _tag) and             *)
(* tagsLastIndex is _tagsLastIndex (unused by DIRECT_MAPPED).              *)
(***************************************************************************)
Slots == 0 .. (MAX_ASSOCIATIVITY - 1)

\* DIRECT_MAPPED(UINT32 associativity = 1): one default tag
DM_New == [tags |-> [i \in Slots |-> CACHE_TAG(0)], tagsLastIndex |-> 0]

\* DIRECT_MAPPED::Find: no state change
DM_Find(set, tag) == [hit |-> TagEq(set.tags[0], tag), set |-> set]

\* DIRECT_MAPPED::Replace writing over the default tag only
DM_ReplaceCold(set, tag) ==
    IF set.tags[0].tag = 0 THEN [set EXCEPT !.tags[0] = tag] ELSE set
\* DIRECT_MAPPED::Replace
DM_Replace(set, tag) == [set EXCEPT !.tags[0] = tag]

\* LRU::LRU filling the slots with a tag no address has
LRU_NewInvalid(associativity) ==
    [tags |-> [i \in Slots |-> CACHE_TAG(0 - 1)], tagsLastIndex |-> associativity - 1]
\* LRU(UINT32 associativity = MAX_ASSOCIATIVITY), for 1 <= associativity
LRU_New(associativity) ==
    [tags |-> [i \in Slots |-> CACHE_TAG(0)], tagsLastIndex |-> associativity - 1]

\* LRU::SetAssociativity: does not reset the tags
LRU_SetAssociativity(set, associativity) ==
    [set EXCEPT !.tagsLastIndex = associativity - 1]

\* the slots the loops of Find and Replace visit
ActiveSlots(set) == 0 .. set.tagsLastIndex

\* LRU::Find leaving its loop at the first match: the slots below the match
\* are not visited
LRU_FindShort(set, tag) ==
    LET match == {i \in ActiveSlots(set) : TagEq(set.tags[i], tag)}
        first == IF match = {} THEN 0 - 1
                 ELSE CHOOSE i \in match : \A j \in match : j <= i
    IN  [hit |-> match # {},
         set |-> [set EXCEPT !.tags =
                    [i \in Slots |->
                        IF i \in ActiveSlots(set) /\ i = first
                        THEN [set.tags[i] EXCEPT !.LRU = 0]
                        ELSE IF i \in ActiveSlots(set) /\ i > first
                        THEN [set.tags[i] EXCEPT !.LRU = @ + 1]
                        ELSE set.tags[i]]]]
\* LRU::Find without the else branch: no slot is aged
LRU_FindNoAge(set, tag) ==
    [hit |-> \E i \in ActiveSlots(set) : TagEq(set.tags[i], tag),
     set |-> [set EXCEPT !.tags =
                [i \in Slots |->
                    IF i \in ActiveSlots(set) /\ TagEq(set.tags[i], tag)
                    THEN [set.tags[i] EXCEPT !.LRU = 0]
                    ELSE set.tags[i]]]]
\* LRU::Find: a match resets its recency, every other visited slot is aged
LRU_Find(set, tag) ==
    [hit |-> \E i \in ActiveSlots(set) : TagEq(set.tags[i], tag),
     set |-> [set EXCEPT !.tags =
                [i \in Slots |->
                    IF i \in ActiveSlots(set)
                    THEN IF TagEq(set.tags[i], tag)
                         THEN [set.tags[i] EXCEPT !.LRU = 0]
                         ELSE [set.tags[i] EXCEPT !.LRU = @ + 1]
                    ELSE set.tags[i]]]]

RECURSIVE LRU_ScanUp(_, _, _, _)
\* a scan that walks the slots upwards from index
LRU_ScanUp(set, index, lru_index, lru_val) ==
    IF index > set.tagsLastIndex THEN lru_index
    ELSE IF set.tags[index].LRU > lru_val
         THEN LRU_ScanUp(set, index + 1, index, set.tags[index].LRU)
         ELSE LRU_ScanUp(set, index + 1, lru_index, lru_val)

RECURSIVE LRU_ScanGe(_, _, _, _)
\* the loop of LRU::Replace comparing with >= instead of >
LRU_ScanGe(set, index, lru_index, lru_val) ==
    IF index < 0 THEN lru_index
    ELSE IF set.tags[index].LRU >= lru_val
         THEN LRU_ScanGe(set, index - 1, index, set.tags[index].LRU)
         ELSE LRU_ScanGe(set, index - 1, lru_index, lru_val)
RECURSIVE LRU_Scan(_, _, _, _)
\* the loop of LRU::Replace from index down to 0: the victim's slot
LRU_Scan(set, index, lru_index, lru_val) ==
    IF index < 0 THEN lru_index
    ELSE IF set.tags[index].LRU > lru_val
         THEN LRU_Scan(set, index - 1, index, set.tags[index].LRU)
         ELSE LRU_Scan(set, index - 1, lru_index, lru_val)

\* LRU::Replace with its loop running upwards from slot 0
LRU_VictimLowest(set) == LRU_ScanUp(set, 0, 0, 0)
\* the slot LRU::Replace overwrites
LRU_Victim(set) == LRU_Scan(set, set.tagsLastIndex, set.tagsLastIndex, 0)

\* LRU::Replace overwriting the last active slot whatever the recencies are
LRU_ReplaceLast(set, tag) ==
    [set EXCEPT !.tags[set.tagsLastIndex] = [tag EXCEPT !.LRU = 0]]
\* LRU::Replace: _tags[lru_index] = tag; _tags[lru_index].LRU = 0;
LRU_Replace(set, tag) == [set EXCEPT !.tags[LRU_Victim(set)] = [tag EXCEPT !.LRU = 0]]

\* SET::Find as a lookup that changes nothing
SetFindPure(kind, set, tag) ==
    [hit |-> \E i \in (IF kind = DIRECT_MAPPED THEN {0} ELSE ActiveSlots(set)) :
                TagEq(set.tags[i], tag),
     set |-> set]
\* SET::Find, SET::Replace of the instantiated set class
SetFind(kind, set, tag) ==
    IF kind = DIRECT_MAPPED THEN DM_Find(set, tag) ELSE LRU_Find(set, tag)
\* SET::Replace that installs nothing
SetReplaceNone(kind, set, tag) == set
SetReplace(kind, set, tag) ==
    IF kind = DIRECT_MAPPED THEN DM_Replace(set, tag) ELSE LRU_Replace(set, tag)
\* the slot SET::Replace overwrites
SetVictim(kind, set) == IF kind = DIRECT_MAPPED THEN 0 ELSE LRU_Victim(set)

(***************************************************************************)
(* State.                                                                  *)
(***************************************************************************)
VARIABLES
    pc,               \* "ready": constructed; "assert": an ASSERTX of the
                      \* constructors failed; "fault": an access outside the
                      \* set array ended the process
    setKind,          \* template argument SET
    storeAllocation,  \* template argument STORE_ALLOCATION
    cacheSize,        \* CACHE_BASE::_cacheSize
    lineSize,         \* CACHE_BASE::_lineSize
    associativity,    \* CACHE_BASE::_associativity
    lineShift,        \* CACHE_BASE::_lineShift
    setIndexMask,     \* CACHE_BASE::_setIndexMask, a UINT32
    sets,             \* CACHE::_sets[MAX_SETS]
    access,           \* CACHE_BASE::_access[ACCESS_TYPE_NUM][HIT_MISS_NUM]
    calls,            \* history: AccessSingleLine calls that returned, per type
    last,             \* history: the last call made on the cache
    ref,              \* history: the reference LRU list of every set
    uKind,            \* class of the stand-alone set
    uset,             \* the stand-alone set
    ulast,            \* history: the last call made on the stand-alone set
    run               \* history: the fill-and-evict run on the stand-alone set

cacheVars == <<pc, setKind, storeAllocation, cacheSize, lineSize, associativity,
               lineShift, setIndexMask, sets, access, calls, last, ref>>
setVars == <<uKind, uset, ulast, run>>
vars == <<cacheVars, setVars>>

(***************************************************************************)
(* CACHE_BASE                                                              *)
(***************************************************************************)
SetIndexes == 0 .. (MAX_SETS - 1)

\* UINT32 NumSets() const { return _setIndexMask + 1; }
NumSetsOf(mask) == U32Inc(mask)
NumSets == NumSetsOf(setIndexMask)

\* a UINT32 below 2^16 as a number
U32Val(x) == x[2]

\* _lineShift(FloorLog2(lineSize))
LineShiftOf(ls) == FloorLog2(ls)

\* _setIndexMask((cacheSize / (associativity * lineSize)) - 1)
SetIndexMaskOf(cs, ls, as) == U32Dec(ToU32(cs \div (as * ls)))

\* the two ASSERTX of CACHE_BASE::CACHE_BASE
BaseAsserts(cs, ls, as) ==
    /\ IsPower2(ToU32(ls))
    /\ IsPower2(NumSetsOf(SetIndexMaskOf(cs, ls, as)))

\* the ASSERTX of SET::SetAssociativity
SetAssociativityAssert(kind, as) ==
    IF kind = DIRECT_MAPPED THEN as = 1 ELSE as <= MAX_ASSOCIATIVITY

\* CACHE::CACHE runs to its end: no ASSERTX fails.  SetAssociativity is
\* called for the sets below NumSets() only, so with NumSets() = 0 it is
\* never called.  The second-level arguments are given the first level's
\* values, so they fail where the first level's fail.
ConstructorAsserts(kind, cs, ls, as) ==
    /\ BaseAsserts(cs, ls, as)
    /\ U32Le(NumSetsOf(SetIndexMaskOf(cs, ls, as)), MAX_SETS)
    /\ (NumSetsOf(SetIndexMaskOf(cs, ls, as)) # <<0, 0>>
            => SetAssociativityAssert(kind, as))

\* SET _sets[MAX_SETS] after the constructor: every element is default
\* constructed, the first NumSets() get SetAssociativity(associativity)
ConstructedSets(kind, as, numSets) ==
    [i \in SetIndexes |->
        IF kind = DIRECT_MAPPED THEN DM_New
        ELSE IF U32Less(ToU32(i), numSets)
             THEN LRU_SetAssociativity(LRU_New(MAX_ASSOCIATIVITY), as)
             ELSE LRU_New(MAX_ASSOCIATIVITY)]

\* _access[accessType][hit] = 0 for every accessType and hit
ZeroAccess == [t \in ACCESS_TYPE |-> [h \in BOOLEAN |-> 0]]

\* CACHE_STATS SumAccess(bool hit, int cache_level) const: the summing
\* loops are commented out
SumAccess(hit, cache_level) == 0

\* accessors
Hits(accessType) == access[accessType][TRUE]
Misses(accessType) == access[accessType][FALSE]
Accesses(accessType) == Hits(accessType) + Misses(accessType)
HitsAll == SumAccess(TRUE, 1)
MissesAll == SumAccess(FALSE, 1)
AccessesAll == HitsAll + MissesAll

\* tag = addr >> shift; setIndex = tag & mask; setIndex is a UINT32
SplitAddressAt(addr, shift, mask) ==
    LET tag == addr \div (2 ^ shift)
    IN  [tag |-> CACHE_TAG(tag), setIndex |-> U32And(ToU32(tag), mask)]

\* SplitAddress with the set index cut from the address, not from the tag
SplitAddressRawIndex(addr) ==
    [tag |-> CACHE_TAG(addr \div (2 ^ lineShift)),
     setIndex |-> U32And(ToU32(addr), setIndexMask)]

\* SplitAddress(addr, tag, setIndex, 1)
SplitAddress(addr) == SplitAddressAt(addr, lineShift, setIndexMask)

\* SplitAddress(addr, tag, setIndex, lineIndex, 1):
\* lineIndex = addr & (_lineSize - 1), then the two-result form
SplitAddressLine(addr) ==
    LET split == SplitAddress(addr)
    IN  [tag |-> split.tag, setIndex |-> split.setIndex,
         lineIndex |-> BitAnd(addr, lineSize - 1)]

(***************************************************************************)
(* CACHE                                                                   *)
(***************************************************************************)
Addrs == 0 .. MaxAddr
Sizes == 0 .. MaxSize

NoCall == [op |-> "none", addr |-> 0, size |-> 0, accessType |-> ACCESS_TYPE_LOAD,
           ret |-> FALSE, inBounds |-> TRUE]

\* AccessSingleLine allocating on every miss, whatever STORE_ALLOCATION is
SingleLineAlways(s, a, addr, accessType) ==
    LET sp == SplitAddress(addr)
        idx == U32Val(sp.setIndex)
        f == SetFind(setKind, s[idx], sp.tag)
    IN  [hit |-> f.hit,
         sets |-> [s EXCEPT ![idx] =
                     IF f.hit THEN f.set ELSE SetReplace(setKind, f.set, sp.tag)],
         access |-> [a EXCEPT ![accessType][f.hit] = @ + 1]]

\* AccessSingleLine counting hits only
SingleLineHitsOnly(s, a, addr, accessType) ==
    LET sp == SplitAddress(addr)
        idx == U32Val(sp.setIndex)
        f == SetFind(setKind, s[idx], sp.tag)
        allocate == (~f.hit) /\ (accessType = ACCESS_TYPE_LOAD
                                  \/ storeAllocation = STORE_ALLOCATE)
    IN  [hit |-> f.hit,
         sets |-> [s EXCEPT ![idx] =
                     IF allocate THEN SetReplace(setKind, f.set, sp.tag) ELSE f.set],
         access |-> IF f.hit THEN [a EXCEPT ![accessType][TRUE] = @ + 1] ELSE a]

\* AccessSingleLine working on _sets[0] whatever the set index is
SingleLineFirstSet(s, a, addr, accessType) ==
    LET sp == SplitAddress(addr)
        f == SetFind(setKind, s[0], sp.tag)
        allocate == (~f.hit) /\ (accessType = ACCESS_TYPE_LOAD
                                  \/ storeAllocation = STORE_ALLOCATE)
    IN  [hit |-> f.hit,
         sets |-> [s EXCEPT ![0] =
                     IF allocate THEN SetReplace(setKind, f.set, sp.tag) ELSE f.set],
         access |-> [a EXCEPT ![accessType][f.hit] = @ + 1]]
\* the body of AccessSingleLine on the set array s and counters a, for an
\* address whose set index lies inside the array
SingleLine(s, a, addr, accessType) ==
    LET sp == SplitAddress(addr)
        idx == U32Val(sp.setIndex)
        f == SetFind(setKind, s[idx], sp.tag)
        allocate == (~f.hit) /\ (accessType = ACCESS_TYPE_LOAD
                                  \/ storeAllocation = STORE_ALLOCATE)
    IN  [hit |-> f.hit,
         sets |-> [s EXCEPT ![idx] =
                     IF allocate THEN SetReplace(setKind, f.set, sp.tag) ELSE f.set],
         access |-> [a EXCEPT ![accessType][f.hit] = @ + 1]]

\* _sets[setIndex] is an element of the array
InBounds(addr) == U32Lt(SplitAddress(addr).setIndex, MAX_SETS)

CallsMade == calls[ACCESS_TYPE_LOAD] + calls[ACCESS_TYPE_STORE]

\* the index of the set an address is mapped to
SetOf(addr) == U32Val(SplitAddress(addr).setIndex)

\* bool CACHE::AccessSingleLine(ADDRINT addr, ACCESS_TYPE accessType), the
\* call as such
SingleLineCall(addr, accessType) ==
    /\ pc = "ready"
    /\ InBounds(addr)
    /\ LET r == SingleLine(sets, access, addr, accessType)
       IN  /\ sets' = r.sets
           /\ access' = r.access
           /\ last' = [op |-> "AccessSingleLine", addr |-> addr, size |-> 0,
                       accessType |-> accessType, ret |-> r.hit, inBounds |-> TRUE]
    /\ calls' = [calls EXCEPT ![accessType] = @ + 1]
    /\ UNCHANGED <<pc, setKind, storeAllocation, cacheSize, lineSize,
                   associativity, lineShift, setIndexMask, setVars>>

\* AccessSingleLine called on the cache of Spec
AccessSingleLine(addr, accessType) ==
    /\ CallsMade < MaxCalls
    /\ SingleLineCall(addr, accessType)
    /\ UNCHANGED ref

\* AccessSingleLine with a set index outside _sets[]: undefined behaviour.
\* Find and Replace then work on memory that is not a set of this array:
\* either the process is ended, or the call returns some hit value and has
\* counted it; the array itself is not written.
AccessSingleLineOutside(addr, accessType) ==
    /\ pc = "ready"
    /\ CallsMade < MaxCalls
    /\ ~InBounds(addr)
    /\ \/ /\ pc' = "fault"
          /\ last' = [op |-> "AccessSingleLine", addr |-> addr, size |-> 0,
                      accessType |-> accessType, ret |-> FALSE, inBounds |-> FALSE]
          /\ UNCHANGED <<access, calls>>
       \/ \E hit \in BOOLEAN :
          /\ pc' = pc
          /\ access' = [access EXCEPT ![accessType][hit] = @ + 1]
          /\ calls' = [calls EXCEPT ![accessType] = @ + 1]
          /\ last' = [op |-> "AccessSingleLine", addr |-> addr, size |-> 0,
                      accessType |-> accessType, ret |-> hit, inBounds |-> FALSE]
    /\ UNCHANGED <<setKind, storeAllocation, cacheSize, lineSize,
                   associativity, lineShift, setIndexMask, sets, ref, setVars>>

(***************************************************************************)
(* The reference LRU list of a set: as many tag values as the set has      *)
(* active slots, the least recently used first.  It is run beside the set  *)
(* from the calls alone and never looks at the set.                        *)
(***************************************************************************)
\* the list beside a set as its constructor leaves it
RefNew(set) == [j \in 1 .. (set.tagsLastIndex + 1) |-> 0]

\* the list after an access with tag value t; allocate: a miss installs t
RefAccess(list, t, allocate) ==
    IF \E j \in 1 .. Len(list) : list[j] = t
    THEN SelectSeq(list, LAMBDA v : v # t) \o SelectSeq(list, LAMBDA v : v = t)
    ELSE IF allocate THEN Append(Tail(list), t)
    ELSE list

\* AccessSingleLine called on the cache of SpecLRU, the reference list of
\* the accessed set following the call
AccessSingleLineTraced(addr, accessType) ==
    /\ CallsMade < MaxRunCalls
    /\ SingleLineCall(addr, accessType)
    /\ ref' = [ref EXCEPT ![SetOf(addr)] =
                RefAccess(@, SplitAddress(addr).tag.tag,
                          accessType = ACCESS_TYPE_LOAD
                              \/ storeAllocation = STORE_ALLOCATE)]

\* start of the next cache line: (addr & notLineMask) + lineSize, where
\* a & ~m = a - (a & m)
NextLine(addr) == (addr - BitAnd(addr, lineSize - 1)) + lineSize

RECURSIVE AccessLoop(_, _, _, _)
\* the do-while loop of CACHE::Access: the call to AccessSingleLine is
\* commented out and localHit is the constant true.  lines counts the
\* iterations.
AccessLoop(addr, highAddr, allHit, lines) ==
    LET localHit == TRUE
        allHit1 == allHit /\ localHit
        addr1 == NextLine(addr)
    IN  IF addr1 < highAddr
        THEN AccessLoop(addr1, highAddr, allHit1, lines + 1)
        ELSE [allHit |-> allHit1, lines |-> lines + 1]

\* bool CACHE::Access(ADDRINT addr, UINT32 size, ACCESS_TYPE accessType)
Access(addr, size, accessType) ==
    /\ pc = "ready"
    /\ last' = [op |-> "Access", addr |-> addr, size |-> size,
                accessType |-> accessType,
                ret |-> AccessLoop(addr, addr + size, TRUE, 0).allHit,
                inBounds |-> TRUE]
    /\ UNCHANGED <<pc, setKind, storeAllocation, cacheSize, lineSize,
                   associativity, lineShift, setIndexMask, sets, access, calls,
                   ref, setVars>>

(***************************************************************************)
(* The stand-alone set.  ulast records the last call: its tag, what Find   *)
(* returned, the slot Replace overwrote and the set before the call.       *)
(* run follows a fill-and-evict run on a cold set:                         *)
(*   "fill"     tags never seen before are inserted one by one, each by a  *)
(*              Find that misses and the Replace that follows it, until as *)
(*              many are in as the set has slots;                          *)
(*   "full"     the inserted tags are probed by Find, each once, in any    *)
(*              order; then (or before any probe) one more unseen tag is   *)
(*              inserted;                                                  *)
(*   "evicted"  the tags inserted first are probed again, each once.       *)
(* A call that does not belong to such a run would end it (phase "off");   *)
(* SpecSet makes the calls of such runs only.                              *)
(*   ins    the tags inserted so far, in order                             *)
(*   slots  the slot each insertion overwrote                              *)
(*   order  the tags of phase "fill", least recently touched first         *)
(*   probed the tags probed in phase "full"                                *)
(*   after  the tags probed in phase "evicted"                             *)
(*   victim the tag value the last insertion of the run overwrote          *)
(*   pending the tag whose Find has missed and whose Replace is due        *)
(***************************************************************************)
Tags == 0 .. MaxTag
NoTag == 0 - 1

NoSetCall == [op |-> "none", tag |-> NoTag, hit |-> FALSE, slot |-> 0, before |-> DM_New]
NewRun == [phase |-> "fill", ins |-> <<>>, slots |-> <<>>, order |-> <<>>,
           probed |-> {}, after |-> {}, victim |-> NoTag, pending |-> NoTag]
OffRun == [phase |-> "off", ins |-> <<>>, slots |-> <<>>, order |-> <<>>,
           probed |-> {}, after |-> {}, victim |-> NoTag, pending |-> NoTag]

Range(seq) == {seq[i] : i \in 1 .. Len(seq)}
\* seq without its element t, and t put last
TouchLast(seq, t) ==
    Append(SelectSeq(seq, LAMBDA x : x # t), t)

\* the run after Find(tag) returned hit
RunAfterFind(r, tag, hit) ==
    IF r.pending # NoTag
        THEN OffRun
    ELSE IF r.phase = "full" /\ tag \in Range(r.order) /\ tag \notin r.probed
        THEN [r EXCEPT !.order = TouchLast(r.order, tag), !.probed = @ \cup {tag}]
    ELSE IF r.phase = "fill" /\ tag \notin Range(r.ins) /\ ~hit
        THEN [r EXCEPT !.pending = tag]
    ELSE IF r.phase = "full" /\ tag \notin Range(r.ins) /\ ~hit
                /\ r.probed \in {{}, Range(r.order)}
        THEN [r EXCEPT !.pending = tag]
    ELSE IF r.phase = "evicted" /\ tag \in Range(r.order) /\ tag \notin r.after
        THEN [r EXCEPT !.after = @ \cup {tag}]
    ELSE OffRun

\* the run after Replace(tag) overwrote slot, which held tag value old
RunAfterReplace(r, tag, slot, old, assoc) ==
    IF r.pending # tag
        THEN OffRun
    ELSE IF r.phase = "fill"
        THEN [r EXCEPT !.ins = Append(@, tag), !.slots = Append(@, slot),
                       !.order = Append(@, tag), !.pending = NoTag,
                       !.phase = IF Len(r.ins) + 1 = assoc THEN "full" ELSE "fill"]
    ELSE IF r.phase = "full"
        THEN [r EXCEPT !.ins = Append(@, tag), !.slots = Append(@, slot),
                       !.pending = NoTag, !.victim = old, !.phase = "evicted"]
    ELSE OffRun

\* the associativity a set was configured with
AssocOf(kind, set) == IF kind = DIRECT_MAPPED THEN 1 ELSE set.tagsLastIndex + 1

\* UINT32 Find(CACHE_TAG tag) called on the stand-alone set
Find(tag) ==
    /\ LET f == SetFind(uKind, uset, CACHE_TAG(tag))
       IN  /\ uset' = f.set
           /\ ulast' = [op |-> "Find", tag |-> tag, hit |-> f.hit, slot |-> 0,
                        before |-> uset]
           /\ RunAfterFind(run, tag, f.hit).phase # "off"
           /\ run' = RunAfterFind(run, tag, f.hit)
    /\ UNCHANGED <<uKind, cacheVars>>

\* VOID Replace(CACHE_TAG tag) called on the stand-alone set, as CACHE
\* calls it: with the tag of the Find that has just missed
Replace(tag) ==
    /\ ulast.op = "Find" /\ ulast.tag = tag /\ ~ulast.hit
    /\ run.pending = tag
    /\ LET slot == SetVictim(uKind, uset)
       IN  /\ uset' = SetReplace(uKind, uset, CACHE_TAG(tag))
           /\ ulast' = [op |-> "Replace", tag |-> tag, hit |-> FALSE,
                        slot |-> slot, before |-> uset]
           /\ run' = RunAfterReplace(run, tag, slot, uset.tags[slot].tag,
                                     AssocOf(uKind, uset))
    /\ UNCHANGED <<uKind, cacheVars>>

\* the stand-alone set while Spec runs
SetIdle ==
    /\ uKind = DIRECT_MAPPED
    /\ uset = DM_New
    /\ ulast = NoSetCall
    /\ run = OffRun

\* the cache while SpecSet runs
CacheIdle ==
    /\ pc = "assert"
    /\ setKind = DIRECT_MAPPED
    /\ storeAllocation = STORE_ALLOCATE
    /\ cacheSize = 1
    /\ lineSize = 1
    /\ associativity = 1
    /\ lineShift = 0
    /\ setIndexMask = <<0, 0>>
    /\ sets = [i \in SetIndexes |-> DM_New]
    /\ access = ZeroAccess
    /\ calls = [t \in ACCESS_TYPE |-> 0]
    /\ last = NoCall
    /\ ref = [i \in SetIndexes |-> RefNew(DM_New)]

(***************************************************************************)
(* SpecSet: one stand-alone set, as its constructor leaves it.             *)
(***************************************************************************)
InitSet ==
    /\ \/ /\ uKind = DIRECT_MAPPED
          /\ uset = DM_New
       \/ /\ uKind = LRU
          /\ \E k \in 1 .. MaxSetAssoc : k <= MAX_ASSOCIATIVITY /\ uset = LRU_New(k)
    /\ ulast = NoSetCall
    /\ run = NewRun
    /\ CacheIdle

NextSet ==
    \/ \E tag \in Tags : Find(tag)
    \/ \E tag \in Tags : Replace(tag)

SpecSet == InitSet /\ [][NextSet]_vars

(***************************************************************************)
(* Spec: one CACHE object.  Init is the state the constructor leaves, for  *)
(* every instantiation and every argument triple within the bounds.        *)
(***************************************************************************)
Init ==
    /\ \E kind \in SET_T, alloc \in STORE_ALLOCATION_T,
          cs \in 1 .. MaxCacheSize, ls \in 1 .. MaxLineSize, as \in 1 .. MaxAssoc :
        /\ setKind = kind
        /\ storeAllocation = alloc
        /\ cacheSize = cs
        /\ lineSize = ls
        /\ associativity = as
        /\ lineShift = LineShiftOf(ls)
        /\ setIndexMask = SetIndexMaskOf(cs, ls, as)
        /\ pc = IF ConstructorAsserts(kind, cs, ls, as) THEN "ready" ELSE "assert"
        /\ sets = ConstructedSets(kind, as, NumSetsOf(SetIndexMaskOf(cs, ls, as)))
    /\ access = ZeroAccess
    /\ calls = [t \in ACCESS_TYPE |-> 0]
    /\ last = NoCall
    /\ ref = [i \in SetIndexes |-> RefNew(sets[i])]
    /\ SetIdle

Next ==
    \/ \E addr \in Addrs, accessType \in ACCESS_TYPE :
          AccessSingleLine(addr, accessType)
    \/ \E addr \in Addrs, accessType \in ACCESS_TYPE :
          AccessSingleLineOutside(addr, accessType)
    \/ \E addr \in Addrs, size \in Sizes, accessType \in ACCESS_TYPE :
          Access(addr, size, accessType)

Spec == Init /\ [][Next]_vars

(***************************************************************************)
(* SpecLRU: one CACHE of LRU sets that has at least one set, so that every *)
(* set index lies inside the set array, driven by AccessSingleLine.        *)
(***************************************************************************)
InitLRU ==
    /\ Init
    /\ setKind = LRU
    /\ pc = "ready"
    /\ NumSets # <<0, 0>>

NextLRU ==
    \E addr \in Addrs, accessType \in ACCESS_TYPE :
        AccessSingleLineTraced(addr, accessType)

SpecLRU == InitLRU /\ [][NextLRU]_vars

(***************************************************************************)
(* Properties.                                                             *)
(***************************************************************************)
AccessesOf(a, accessType) == a[accessType][TRUE] + a[accessType][FALSE]

\* this step is an AccessSingleLine call that returned
SingleLineReturned == calls' # calls

\* C1: every AccessSingleLine call that returns has raised the counter of
\* (its access type, the hit value it returned) by exactly 1 and has left
\* the other three counters as they were; so at all times
\* Hits(t) + Misses(t) is the number of calls of type t made so far.  (calls
\* counts the calls that returned; a call that ends the process returns
\* nothing.)
C1_OneCounterPerCall ==
    /\ [](\A t \in ACCESS_TYPE : Hits(t) + Misses(t) = calls[t])
    /\ [][SingleLineReturned =>
            access' = [access EXCEPT ![last'.accessType][last'.ret] = @ + 1]]_vars

\* C1's case: a load that hit and a store that missed have been counted
C1_Witness ==
    /\ pc = "ready"
    /\ calls[ACCESS_TYPE_LOAD] = 1 /\ Hits(ACCESS_TYPE_LOAD) = 1
    /\ calls[ACCESS_TYPE_STORE] = 1 /\ Misses(ACCESS_TYPE_STORE) = 1

\* C2: the aggregate accessors agree with the per-type counters:
\* Hits() = Hits(load) + Hits(store), Misses() = Misses(load) + Misses(store)
\* and Accesses() = N + M, the number of calls made.
C2_Aggregates ==
    /\ HitsAll = Hits(ACCESS_TYPE_LOAD) + Hits(ACCESS_TYPE_STORE)
    /\ MissesAll = Misses(ACCESS_TYPE_LOAD) + Misses(ACCESS_TYPE_STORE)
    /\ AccessesAll = calls[ACCESS_TYPE_LOAD] + calls[ACCESS_TYPE_STORE]

\* the number of cache lines the bytes [addr, addr + size) overlap, size >= 1
LinesOverlapped(addr, size) ==
    ((addr + size - 1) \div lineSize) - (addr \div lineSize) + 1

RECURSIVE AllLinesHit(_, _, _, _, _)
\* the AND of the hit outcomes of the lines from addr up to highAddr, each
\* line accessed in turn by the single-line logic, starting from set array
\* s and counters a
AllLinesHit(s, a, addr, highAddr, accessType) ==
    LET r == SingleLine(s, a, addr, accessType)
    IN  /\ r.hit
        /\ (NextLine(addr) < highAddr
              => AllLinesHit(r.sets, r.access, NextLine(addr), highAddr, accessType))

\* this step is a call Access(addr, size, accessType) of at least one byte
\* whose lines all have their set inside the set array
AccessCalled ==
    /\ last'.op = "Access"
    /\ last'.size >= 1
    /\ \A x \in last'.addr .. (last'.addr + last'.size - 1) : InBounds(x)

\* C3: Access returns the AND of the hit outcomes of the lines it overlaps:
\* true iff every touched line hits.
C3_AndOfLineHits ==
    [][AccessCalled =>
        last'.ret = AllLinesHit(sets, access, last'.addr,
                                last'.addr + last'.size, last'.accessType)]_vars

\* C4: an Access overlapping L lines raises the counters of its access type
\* by exactly L in total.
C4_CountsOncePerLine ==
    [][AccessCalled =>
        AccessesOf(access', last'.accessType)
            = AccessesOf(access, last'.accessType)
                + LinesOverlapped(last'.addr, last'.size)]_vars

\* the tag value of every slot of every set
TagValues(s) == [i \in SetIndexes |-> [j \in Slots |-> s[i].tags[j].tag]]

\* the last call was a store that missed, in a STORE_NO_ALLOCATE cache, on a
\* set of the array
StoreMissed ==
    /\ storeAllocation = STORE_NO_ALLOCATE
    /\ last.op = "AccessSingleLine"
    /\ last.accessType = ACCESS_TYPE_STORE
    /\ ~last.ret
    /\ last.inBounds

\* C5: in a STORE_NO_ALLOCATE cache a store that misses leaves the tag value
\* of every slot of every set as it was, and a load of the same address
\* right after it misses.
C5_NoAllocateStoreMiss ==
    /\ [](StoreMissed => ~SetFind(setKind,
                                  sets[U32Val(SplitAddress(last.addr).setIndex)],
                                  SplitAddress(last.addr).tag).hit)
    /\ [][(SingleLineReturned /\ storeAllocation = STORE_NO_ALLOCATE
              /\ last'.accessType = ACCESS_TYPE_STORE /\ ~last'.ret)
            => TagValues(sets') = TagValues(sets)]_vars
    /\ [][(StoreMissed /\ SingleLineReturned /\ last'.addr = last.addr
              /\ last'.accessType = ACCESS_TYPE_LOAD)
            => ~last'.ret]_vars

\* C5's case: a store has missed in a STORE_NO_ALLOCATE cache whose set is
\* an LRU set, and the load of the same address has followed
C5_Witness ==
    /\ storeAllocation = STORE_NO_ALLOCATE
    /\ setKind = LRU
    /\ last.op = "AccessSingleLine" /\ last.accessType = ACCESS_TYPE_LOAD
    /\ last.inBounds /\ ~last.ret
    /\ calls[ACCESS_TYPE_STORE] = 1 /\ Misses(ACCESS_TYPE_STORE) = 1
    /\ calls[ACCESS_TYPE_LOAD] = 1

\* tag value t is in an active slot of set
Resident(set, t) == \E i \in ActiveSlots(set) : set.tags[i].tag = t

C7_EvictsSlotZeroFirst ==
    uKind = LRU =>
        /\ Len(run.slots) >= 1 => run.slots[1] = 0
        /\ (run.phase = "evicted" /\ run.probed = {})
              => run.slots[Len(run.slots)] = 0

\* C7 as amended: on a cold associative set of associativity k that is
\* given k+1 unseen tags in sequence, the first slot overwritten is slot
\* k-1, the insertions go down from there to slot 0, and the (k+1)-th tag
\* evicts the first tag inserted, from slot k-1.
C7_EvictsLastSlotFirst ==
    uKind = LRU =>
        /\ \A j \in 1 .. Len(run.slots) :
              j <= AssocOf(uKind, uset) => run.slots[j] = AssocOf(uKind, uset) - j
        /\ (run.phase = "evicted" /\ run.probed = {})
              => /\ run.slots[Len(run.slots)] = uset.tagsLastIndex
                 /\ run.victim = run.ins[1]

\* C7's case: a cold 3-way set was given four unseen tags in sequence
C7_Witness ==
    /\ uKind = LRU
    /\ AssocOf(uKind, uset) = 3
    /\ run.phase = "evicted"
    /\ run.probed = {}
    /\ Len(run.ins) = 4

\* C8: a constructed cache has NumSets() * Associativity() * LineSize()
\* equal to CacheSize().
C8_GeometryProduct ==
    pc # "assert" =>
        /\ NumSets[1] = 0
        /\ U32Val(NumSets) * associativity * lineSize = cacheSize

\* n is a power of two: 1, 2, 4, ...; 0 is none
PowerOfTwo(n) == \E e \in 0 .. 16 : n = 2 ^ e

\* C9: construction fails when the line size is no power of two or the
\* derived set count cacheSize / (associativity * lineSize) is no power of
\* two.
C9_RejectsNonPowerOfTwo ==
    (~PowerOfTwo(lineSize) \/ ~PowerOfTwo(cacheSize \div (associativity * lineSize)))
        => pc = "assert"

\* C10: no access of a constructed cache fails: the set index of every
\* AccessSingleLine call is below NumSets(), which is at most MAX_SETS.
C10_SetIndexInRange ==
    /\ pc # "fault"
    /\ last.op = "AccessSingleLine"
          => /\ U32Less(SplitAddress(last.addr).setIndex, NumSets)
             /\ U32Le(NumSets, MAX_SETS)

\* two addresses lie in the same cache line
SameLine(a, b) == a \div lineSize = b \div lineSize

\* C11: in a constructed cache lineShift is log2(lineSize) and, for every
\* address, SplitAddress returns tag = addr >> lineShift (the number of the
\* address's line) and setIndex = tag & (NumSets() - 1), cut from the
\* shifted address; the three-result form returns the same two and
\* lineIndex = addr & (lineSize - 1), the offset in the line.  Two addresses
\* get the same tag and set exactly if they lie in the same line.  With
\* cacheSize 32KB, lineSize 64, associativity 4 there are 128 sets and
\* address 0x1000 gets tag 0x40 and set index 64.
C11_SplitAddress ==
    /\ pc = "ready" =>
        LET split == [a \in Addrs |-> SplitAddressLine(a)]
            line == [a \in Addrs |-> a \div lineSize]
            setCountLess1 == U32Dec(NumSets)
        IN  /\ 2 ^ lineShift = lineSize
            /\ \A a \in Addrs :
                /\ split[a].tag.tag = line[a]
                /\ split[a].setIndex = U32And(ToU32(line[a]), setCountLess1)
                /\ (NumSets # <<0, 0>> /\ NumSets[1] = 0)
                      => split[a].setIndex = ToU32(line[a] % NumSets[2])
                /\ split[a].lineIndex = a % lineSize
            /\ \A a, b \in Addrs :
                  (split[a].tag.tag = split[b].tag.tag
                      /\ split[a].setIndex = split[b].setIndex)
                    <=> line[a] = line[b]
    /\ NumSetsOf(SetIndexMaskOf(32768, 64, 4)) = ToU32(128)
    /\ SplitAddressAt(4096, LineShiftOf(64), SetIndexMaskOf(32768, 64, 4))
          = [tag |-> CACHE_TAG(64), setIndex |-> ToU32(64)]

\* C11's case: an address of the second line of a cache with two sets and
\* two-byte lines was accessed
C11_Witness ==
    /\ pc = "ready"
    /\ lineSize = 2
    /\ NumSets = ToU32(2)
    /\ last.op = "AccessSingleLine" /\ last.inBounds
    /\ last.addr = 2
    /\ SplitAddress(last.addr).setIndex = ToU32(1)
    /\ SplitAddressLine(1).lineIndex = 1

\* C12: on a direct-mapped set, the Find that comes right after Replace(t)
\* returns true if it asks for t and false if it asks for any other tag;
\* Find never changes the stored tag; Replace(t) makes t the stored tag
\* whatever was stored before, also when it is called without a miss
\* before it.
C12_DirectMapped ==
    /\ [](uKind = DIRECT_MAPPED =>
            \A t \in Tags :
                /\ DM_Find(uset, CACHE_TAG(t)).set = uset
                /\ DM_Find(uset, CACHE_TAG(t)).hit = (uset.tags[0].tag = t)
                /\ DM_Replace(uset, CACHE_TAG(t)).tags[0] = CACHE_TAG(t)
                /\ \A u \in Tags :
                      DM_Find(DM_Replace(uset, CACHE_TAG(t)), CACHE_TAG(u)).hit
                          = (u = t))
    /\ [][(uKind = DIRECT_MAPPED /\ ulast'.op = "Find")
            => /\ uset' = uset
               /\ ulast.op = "Replace" => ulast'.hit = (ulast'.tag = ulast.tag)]_vars
    /\ [][(uKind = DIRECT_MAPPED /\ ulast'.op = "Replace")
            => uset'.tags[0] = CACHE_TAG(ulast'.tag)]_vars

\* C12's case: on a direct-mapped set a first tag was put in by Replace and
\* found, a second tag was put in over it, and the Find of the first tag
\* that came right after that Replace has returned false
C12_Witness ==
    /\ uKind = DIRECT_MAPPED
    /\ run.phase = "evicted"
    /\ run.probed = Range(run.order)
    /\ Len(run.ins) = 2
    /\ ulast.op = "Find" /\ ulast.tag = run.ins[1] /\ ~ulast.hit
    /\ ulast.before.tags[0].tag = run.ins[2]
    /\ uset.tags[0].tag = run.ins[2]

\* no tag value is in two active slots of set
NoDuplicate(set) ==
    \A i, j \in ActiveSlots(set) : i # j => set.tags[i].tag # set.tags[j].tag

\* C13: in every reachable state of a cache set, the state its constructor
\* leaves included, at most one active slot holds any given tag value.
C13_NoDuplicateResidency == NoDuplicate(uset)

\* what C14 says of a Find(t) that took the LRU set before to the set
\* after and returned hit
FindEffect(before, t, after, hit) ==
    /\ after.tagsLastIndex = before.tagsLastIndex
    /\ \A i \in Slots :
        IF i <= before.tagsLastIndex
        THEN /\ after.tags[i].tag = before.tags[i].tag
             /\ after.tags[i].dirty = before.tags[i].dirty
             /\ after.tags[i].LRU = IF before.tags[i].tag = t THEN 0
                                    ELSE before.tags[i].LRU + 1
        ELSE after.tags[i] = before.tags[i]
    /\ hit = (\E i \in 0 .. before.tagsLastIndex : before.tags[i].tag = t)

\* C14: Find(t) on an LRU set visits every active slot: each active slot
\* whose tag is t gets recency 0, every other active slot's recency goes up
\* by exactly 1, on a hit and on a miss alike; no tag value changes; the
\* slots beyond the associativity are untouched; the result is true iff
\* some active slot's tag is t.  It is stated of every Find call made, and
\* of Find applied to every reachable set for every tag (in a set that is
\* not yet full several slots hold the default tag and all match it).
C14_FindScansAll ==
    /\ [](uKind = LRU =>
            \A t \in Tags :
                FindEffect(uset, t, LRU_Find(uset, CACHE_TAG(t)).set,
                           LRU_Find(uset, CACHE_TAG(t)).hit))
    /\ [][(uKind = LRU /\ ulast'.op = "Find")
            => FindEffect(uset, ulast'.tag, uset', ulast'.hit)]_vars

\* C14's case: a Find has hit in a full 3-way set: the slot of its tag had
\* been aged and is back at recency 0, the two others, one of them aged
\* before, were aged once more
C14_Witness ==
    /\ uKind = LRU
    /\ AssocOf(uKind, uset) = 3
    /\ run.phase = "full"
    /\ ulast.op = "Find" /\ ulast.hit
    /\ \E i \in ActiveSlots(uset) :
        /\ ulast.before.tags[i].tag = ulast.tag
        /\ ulast.before.tags[i].LRU >= 1
        /\ uset.tags[i].LRU = 0
        /\ \A j \in ActiveSlots(uset) \ {i} :
              uset.tags[j].LRU = ulast.before.tags[j].LRU + 1
        /\ \E j \in ActiveSlots(uset) \ {i} : ulast.before.tags[j].LRU >= 1

\* the active slots of set whose recency is the highest
MaxRecencySlots(set) ==
    {i \in ActiveSlots(set) :
        \A j \in ActiveSlots(set) : set.tags[j].LRU <= set.tags[i].LRU}

\* Replace(t) took the LRU set before to the set after by installing t with
\* recency 0 in slot and leaving every other slot as it was
ReplaceEffect(before, t, slot, after) ==
    /\ after.tags[slot].tag = t
    /\ after.tags[slot].LRU = 0
    /\ \A i \in Slots \ {slot} : after.tags[i] = before.tags[i]
    /\ after.tagsLastIndex = before.tagsLastIndex

\* C15 as stated: Replace(t) on an LRU set installs t, with recency 0, in
\* the active slot whose recency is maximal, the one with the lowest slot
\* index when several share the maximum; every other slot is unchanged.
C15_ReplaceLowestOnTie ==
    [][(uKind = LRU /\ ulast'.op = "Replace")
        => \E s \in MaxRecencySlots(uset) :
            /\ \A i \in MaxRecencySlots(uset) : s <= i
            /\ ReplaceEffect(uset, ulast'.tag, s, uset')]_vars

\* C15 as amended: Replace(t) on an LRU set installs t, with recency 0, in
\* the active slot whose recency is maximal, the one with the highest slot
\* index when several share the maximum; every other slot is unchanged.
\* It is stated of every Replace call made, and of Replace applied to every
\* reachable set for every tag.
C15_ReplaceHighestOnTie ==
    /\ [](uKind = LRU =>
            \A t \in Tags :
                \E s \in MaxRecencySlots(uset) :
                    /\ \A i \in MaxRecencySlots(uset) : i <= s
                    /\ ReplaceEffect(uset, t, s, LRU_Replace(uset, CACHE_TAG(t))))
    /\ [][(uKind = LRU /\ ulast'.op = "Replace")
            => \E s \in MaxRecencySlots(uset) :
                /\ \A i \in MaxRecencySlots(uset) : i <= s
                /\ ReplaceEffect(uset, ulast'.tag, s, uset')]_vars

\* C15's case: a Replace was made on a 3-way set in which two slots shared
\* the highest recency and a third was younger
C15_Witness ==
    /\ uKind = LRU
    /\ AssocOf(uKind, uset) = 3
    /\ ulast.op = "Replace"
    /\ Cardinality(MaxRecencySlots(ulast.before)) = 2
    /\ uset.tags[ulast.slot].tag = ulast.tag
    /\ ulast.slot = 1
    /\ MaxRecencySlots(ulast.before) = {0, 1}

\* this step is a store that missed and returned, in a STORE_NO_ALLOCATE
\* cache, on a set of the array
StoreMissStep ==
    /\ SingleLineReturned
    /\ storeAllocation = STORE_NO_ALLOCATE
    /\ last'.accessType = ACCESS_TYPE_STORE
    /\ ~last'.ret
    /\ last'.inBounds

\* C16 as stated: a store miss under STORE_NO_ALLOCATE leaves the whole
\* state of the accessed set, every slot's tag and recency, as it was, in a
\* direct-mapped and in an LRU cache.
C16_StoreMissSetUnchanged ==
    [][StoreMissStep => sets'[SetOf(last'.addr)] = sets[SetOf(last'.addr)]]_vars

\* C16 as amended: a store miss under STORE_NO_ALLOCATE leaves the tag
\* value of every slot of the accessed set as it was.  A direct-mapped set
\* is left wholly unchanged; in an LRU set the recency of every active slot
\* has gone up by 1 (the Find that missed aged them) and the slots beyond
\* the associativity are unchanged.
C16_StoreMissAgesOnly ==
    [][StoreMissStep =>
        LET before == sets[SetOf(last'.addr)]
            after == sets'[SetOf(last'.addr)]
        IN  IF setKind = DIRECT_MAPPED
            THEN after = before
            ELSE /\ after.tagsLastIndex = before.tagsLastIndex
                 /\ \A i \in Slots :
                      after.tags[i] =
                        IF i \in ActiveSlots(before)
                        THEN [before.tags[i] EXCEPT !.LRU = @ + 1]
                        ELSE before.tags[i]]_vars

\* C16's case: a store has missed in a STORE_NO_ALLOCATE cache with 2-way
\* LRU sets: the accessed set holds the tags it held, each aged
C16_Witness ==
    /\ StoreMissed
    /\ setKind = LRU
    /\ associativity = 2
    /\ NumSets # <<0, 0>>
    /\ calls[ACCESS_TYPE_LOAD] = 1
    /\ \E i \in ActiveSlots(sets[SetOf(last.addr)]) :
          sets[SetOf(last.addr)].tags[i].LRU = 2

\* the last call was an AccessSingleLine on a set of the array that
\* allocates on a miss: a load, or a store in a STORE_ALLOCATE cache
AllocatingCall ==
    /\ last.op = "AccessSingleLine"
    /\ last.inBounds
    /\ (last.accessType = ACCESS_TYPE_LOAD \/ storeAllocation = STORE_ALLOCATE)

\* C17: after AccessSingleLine(a, load) has returned, hit or miss, and
\* after AccessSingleLine(a, store) in a STORE_ALLOCATE cache, the line of
\* a is resident in its set, and the AccessSingleLine call that follows
\* immediately, of either type, to any address of the same line returns
\* hit.
C17_AllocatedLineHits ==
    /\ [](AllocatingCall =>
            SetFind(setKind, sets[SetOf(last.addr)], SplitAddress(last.addr).tag).hit)
    /\ [][(AllocatingCall /\ SingleLineReturned /\ last'.inBounds
              /\ SameLine(last.addr, last'.addr))
            => last'.ret]_vars

\* C17's case: in a STORE_NO_ALLOCATE cache with LRU sets a load of a line
\* other than line 0 has missed and the store to that line, which came
\* next, has hit
C17_Witness ==
    /\ pc = "ready"
    /\ setKind = LRU
    /\ storeAllocation = STORE_NO_ALLOCATE
    /\ calls[ACCESS_TYPE_LOAD] = 1 /\ Misses(ACCESS_TYPE_LOAD) = 1
    /\ calls[ACCESS_TYPE_STORE] = 1 /\ Hits(ACCESS_TYPE_STORE) = 1
    /\ last.op = "AccessSingleLine" /\ last.accessType = ACCESS_TYPE_STORE
    /\ last.inBounds /\ last.ret
    /\ SplitAddress(last.addr).tag.tag # 0

\* this step is the first AccessSingleLine call made on the cache
FirstCall == CallsMade = 0 /\ SingleLineReturned

\* C18: on a freshly constructed cache the first AccessSingleLine call
\* returns hit if its address has tag value 0 (addr < lineSize), since the
\* default tag of set 0 has value 0, and miss if its address has any other
\* tag value; once no slot of set 0 holds the default tag value any more,
\* an access with tag value 0 misses.
C18_ColdTagZero ==
    /\ [](pc = "ready" =>
            /\ \A a \in Addrs : (a < lineSize) = (SplitAddress(a).tag.tag = 0)
            /\ \A a \in Addrs : a < lineSize => SetOf(a) = 0
            /\ ~Resident(sets[0], 0)
                  => \A a \in Addrs, t \in ACCESS_TYPE :
                        a < lineSize => ~SingleLine(sets, access, a, t).hit)
    /\ [][(FirstCall /\ last'.addr < lineSize) => last'.ret]_vars
    /\ [][(FirstCall /\ last'.inBounds /\ SplitAddress(last'.addr).tag.tag # 0)
            => ~last'.ret]_vars
    /\ [][(SingleLineReturned /\ last'.addr < lineSize /\ ~Resident(sets[0], 0))
            => ~last'.ret]_vars

\* C18's case: the one default slot of set 0 was replaced by the first
\* load, which missed, and the load with tag value 0 that followed has
\* missed and has put tag value 0 back
C18_Witness ==
    /\ pc = "ready"
    /\ CallsMade = 2
    /\ Misses(ACCESS_TYPE_LOAD) = 2
    /\ last.op = "AccessSingleLine" /\ last.inBounds
    /\ last.addr < lineSize /\ ~last.ret
    /\ Resident(sets[0], 0)

\* the geometry and the instantiation of the cache
Geometry == <<setKind, storeAllocation, cacheSize, lineSize, associativity,
              lineShift, setIndexMask>>

\* C20: an AccessSingleLine call changes only the set its address's set
\* index selects: every other set of the array, tags and recency, and the
\* geometry are as before.  It reads that set only: it returns what Find
\* on that set, as the earlier calls mapped to it have left it, returns.
C20_SetIsolation ==
    /\ [][SingleLineReturned =>
            /\ \A i \in SetIndexes :
                  ToU32(i) # SplitAddress(last'.addr).setIndex => sets'[i] = sets[i]
            /\ Geometry' = Geometry]_vars
    /\ [][(SingleLineReturned /\ last'.inBounds) =>
            last'.ret = SetFind(setKind, sets[SetOf(last'.addr)],
                                SplitAddress(last'.addr).tag).hit]_vars

\* C20's case: in a cache with two 2-way LRU sets a line of set 0 was
\* loaded and then a line of set 1: set 1 holds the new line and set 0 is
\* as the first load left it
C20_Witness ==
    /\ pc = "ready"
    /\ setKind = LRU
    /\ associativity = 2
    /\ NumSets = ToU32(2)
    /\ Misses(ACCESS_TYPE_LOAD) = 2
    /\ last.op = "AccessSingleLine" /\ SetOf(last.addr) = 1
    /\ Resident(sets[1], SplitAddress(last.addr).tag.tag)
    /\ Resident(sets[0], 2)
    /\ \E i \in ActiveSlots(sets[0]) : sets[0].tags[i].LRU = 1

\* the place of tag value v in list: its first index, 0 if it is not there
PlaceOf(list, v) ==
    IF \E j \in 1 .. Len(list) : list[j] = v
    THEN CHOOSE j \in 1 .. Len(list) : list[j] = v /\ \A h \in 1 .. (j - 1) : list[h] # v
    ELSE 0

\* this step is an AccessSingleLine call that missed and installed its tag
AllocatingMiss ==
    /\ SingleLineReturned
    /\ ~last'.ret
    /\ (last'.accessType = ACCESS_TYPE_LOAD \/ storeAllocation = STORE_ALLOCATE)

====
